---- MODULE Spec2Model ----
(***************************************************************************)
(* Model of the job-board REST handlers of                                 *)
(* packages/backend/src/api/job/jobService.ts and of the event router.     *)
(*                                                                         *)
(* Storage is the relational database behind the shared `db` handle; the   *)
(* program keeps no state of its own.  Every handler issues one statement  *)
(* (getJobs issues a count and a select over the same conditions), and     *)
(* everything a handler does before its statement reads only the request,  *)
(* so a handler is one atomic step and concurrent requests are the         *)
(* interleavings of these steps.                                           *)
(*                                                                         *)
(* resp is the exchange in progress: the request a handler has just served *)
(* and the response it sent (status 0: it sent none), until the client has *)
(* taken it.  Requests are dispatched one at a time; as every handler is   *)
(* one atomic step this loses no interleaving of the storage.              *)
(*                                                                         *)
(* userTable is the user table the repository functions of userRepository  *)
(* work on, and now is the clock `new Date()` reads.  Spec is the request  *)
(* handlers at one reading of the clock; SpecClock adds the passing of     *)
(* time and the repository's functions.                                    *)
(***************************************************************************)
EXTENDS Integers, Sequences, FiniteSets, TLC

VARIABLES job, jobCategory, jobLevel, jobSaved, event, registration, userTable, now,
          next, hist, resp

vars == <<job, jobCategory, jobLevel, jobSaved, event, registration, userTable, now,
          next, hist, resp>>

(* ------------------------------ bounds -------------------------------- *)

\* Rows ever inserted, over all tables (the serial and uuid generators are
\* unbounded in the program).
MaxRows == 2

\* The clock reads 0 .. MaxTime.
MaxTime == 1

(* --------------------------- request values --------------------------- *)

NoUser == [id |-> "", role |-> <<>>]

\* req.user as attached by the authentication layer: an id and a role.
Users ==
  { [id |-> "u1", role |-> <<"A", "d", "m", "i", "N">>],
    [id |-> "u2", role |-> <<"u", "s", "e", "r">>] }

Principals == Users \cup {NoUser}

\* A job id in the request: a generated uuid, a string that is no uuid, or
\* a missing parameter.
Uuid(n) == <<"uuid", n>>
BadUuid == <<"not-a-uuid", 0>>
NoId == <<"", 0>>
JobIdParams == {Uuid(n) : n \in 1..MaxRows} \cup {BadUuid, NoId}

\* Numeric strings of the query and of the :id parameter of the category
\* and level routes.
Absent == <<"undefined">>
PageIndexes == {Absent, <<"2">>, <<"0">>, <<"-", "1">>, <<"x">>}
PageSizes == {Absent, <<"1">>, <<"0">>, <<"-", "1">>}
CategoryFilters == {Absent, <<"1">>, <<"x">>}
LevelFilters == {Absent, <<"2">>}
IdParams == {<<"1">>, <<"2">>, <<"3", "x">>, <<"x">>}

Digits ==
  [c \in {"0", "1", "2", "3"} |->
     CASE c = "0" -> 0 [] c = "1" -> 1 [] c = "2" -> 2 [] c = "3" -> 3]

Titles == {"Engineering", "Design"}
NoTitle == "undefined"

\* The outcome of a statement: it completes, or it throws an error with a
\* message of the driver.
ConnectionError == "connection terminated unexpectedly"
TimeoutError == "canceling statement due to statement timeout"
DbOutcomes == {"ok", ConnectionError, TimeoutError}
UniqueViolation == "duplicate key value violates unique constraint"
\* The server's refusal of a NaN integer parameter or a negative LIMIT/OFFSET.
Rejected == "invalid input for the statement"
NoDetail == ""

(* ------------------------- library functions -------------------------- *)

LowerChar(c) ==
  CASE c = "A" -> "a" [] c = "D" -> "d" [] c = "M" -> "m" [] c = "I" -> "i"
    [] c = "N" -> "n" [] OTHER -> c

\* String.prototype.toLowerCase / toLocaleLowerCase (default locale).
toLowerCase(s) == [i \in 1..Len(s) |-> LowerChar(s[i])]

RECURSIVE DigitsPrefix(_, _, _)
\* The value of the longest digit prefix of s from position i, as
\* <<found, value>>.
DigitsPrefix(s, i, acc) ==
  IF i > Len(s) \/ s[i] \notin DOMAIN Digits
    THEN acc
    ELSE DigitsPrefix(s, i + 1, <<TRUE, acc[2] * 10 + Digits[s[i]]>>)

\* parseInt(s, 10) as <<isNumber, value>>; <<FALSE, 0>> is NaN.
parseInt(s) ==
  IF Len(s) > 0 /\ s[1] = "-"
    THEN LET r == DigitsPrefix(s, 2, <<FALSE, 0>>) IN <<r[1], 0 - r[2]>>
    ELSE DigitsPrefix(s, 1, <<FALSE, 0>>)

\* parseInt(s, 10) || d
OrDefault(p, d) == IF p[1] /\ p[2] # 0 THEN p[2] ELSE d

\* Ceil that rounds down.
CeilFloor(a, b) == a \div b

\* Math.ceil(a / b) for a >= 0, b > 0
Ceil(a, b) == (a + b - 1) \div b

Min(a, b) == IF a < b THEN a ELSE b
Max(a, b) == IF a > b THEN a ELSE b

(* ------------------------------ responses ----------------------------- *)

NoPagination == [currentPage |-> 0, pageSize |-> 0, totalCount |-> 0, totalPages |-> 0]
ZodIssues == "zod issues"

\* A JSON body: its fixed text, the detail taken from a caught error, the
\* id it names, the stored rows it carries and the pagination block.
Body(text) ==
  [text |-> text, detail |-> NoDetail, jobId |-> NoId, rows |-> {},
   pagination |-> NoPagination]

NoBody == Body("")

\* threw is the message of the error the handler's statement threw.
Send(handler, req, status, body, threw) ==
  [handler |-> handler, req |-> req, status |-> status, body |-> body, threw |-> threw]

Respond(r) == resp' = r

NoExchange == Send("none", NoUser, 0, NoBody, NoDetail)

(* ------------------------------- storage ------------------------------ *)

Inserted ==
  next.job + next.category + next.level + next.saved + next.event
    + next.registration + next.user

\* What the postgres-js driver resolves a statement to: the rows of its
\* RETURNING clause, and no rows when the statement has none.
RowList(rows, returning) == IF returning THEN rows ELSE {}

\* WhereId without the condition.
WhereAny(table, id) == table

\* .where(eq(table.id, id)): the rows of the table with that id.
WhereId(table, id) == {r \in table : r.id = id}

\* The statement threw.
Thrown(out) == out # "ok"

\* A row with this id is in the table.
Stored(table, id) == \E r \in table : r.id = id

\* new Date(): the reading of the clock when the handler runs
NewDate == now

\* The value a row's updatedAt column takes when the insert states none.
DefaultNow == now

Init ==
  /\ job = {}
  /\ jobCategory = {}
  /\ jobLevel = {}
  /\ jobSaved = {}
  /\ event = {}
  /\ registration = {}
  /\ userTable = {}
  /\ now = 0
  /\ next = [job |-> 0, category |-> 0, level |-> 0, saved |-> 0, event |-> 0,
             registration |-> 0, user |-> 0]
  /\ hist = <<>>
  /\ resp = NoExchange

(* ---------------------------- job payloads ---------------------------- *)

\* Request bodies of POST /jobs and PUT /jobs/:jobId: the fields the model
\* stores, and an isApproved key a client may add.
JobBodies ==
  { [title |-> NoTitle, category |-> 1, level |-> 1, isApproved |-> FALSE] } \cup
  { [title |-> "Engineering", category |-> c, level |-> c, isApproved |-> a] :
      c \in {1, 2}, a \in BOOLEAN }

\* createJobSchema.safeParse(req.body).success
createJobSchema(body) == body.title # NoTitle

\* JobSchema.parse(req.body) does not throw
JobSchema(body) == body.title # NoTitle

\* The parsed jobData of updateJob: the columns of the job table the body
\* states (a full update of the row).
JobData(body) ==
  [categoryId |-> body.category, levelId |-> body.level, isApproved |-> body.isApproved]

\* z.string().uuid().safeParse(jobId).success
IsUuid(id) == id[1] = "uuid"

\* isAdminRole without the lower-casing of the role.
isAdminRoleExact(user) == user.role = <<"a", "d", "m", "i", "n">>

\* req.user.role.toLowerCase() === 'admin'
isAdminRole(user) == toLowerCase(user.role) = <<"a", "d", "m", "i", "n">>

\* Unauthorized without the check of the role.
UnauthorizedMissingOnly(user) == user = NoUser

\* !req.user || req.user.role.toLowerCase() != 'admin'
Unauthorized(user) == user = NoUser \/ ~isAdminRole(user)

(* ---------------------------- job handlers ---------------------------- *)

\* hist records how each stored job stands in the approval workflow:
\* "pending" (created by a non-admin), "admin" (created by an admin) or
\* "approved" (an approveJob call on it has succeeded).  A deleted job's
\* id is never used again.  For a stored category that no update has
\* touched since its creation, hist records under CategoryKey(id) the
\* title it was created with.
Note(id, how) == [i \in DOMAIN hist \cup {id} |-> IF i = id THEN how ELSE hist[i]]
Forget(id) == [i \in DOMAIN hist \ {id} |-> hist[i]]
CategoryKey(n) == <<"category", n>>

getJobById(id, out) ==
  LET h == "getJobById"
      req == [id |-> id]
      foundJob == WhereId(job, id)
  IN /\ UNCHANGED <<job, jobCategory, jobLevel, jobSaved, event, next, hist>>
     /\ UNCHANGED <<registration, userTable, now>>
     /\ IF id = NoId
          THEN Respond(Send(h, req, 400, Body("Job ID is required"), NoDetail))
        ELSE IF Thrown(out)
          THEN Respond(Send(h, req, 500,
                 [Body("Internal Server Error") EXCEPT !.detail = out], out))
        ELSE IF foundJob = {}
          THEN Respond(Send(h, req, 404, Body("Job not found"), NoDetail))
        ELSE Respond(Send(h, req, 200, [Body("") EXCEPT !.rows = foundJob], NoDetail))

deleteJobById(user, id, out) ==
  LET h == "deleteJobById"
      req == [user |-> user, id |-> id]
      deleted == WhereId(job, id)
      result == RowList(deleted, FALSE)
  IN /\ UNCHANGED <<jobCategory, jobLevel, jobSaved, event, next>>
     /\ UNCHANGED <<registration, userTable, now>>
     /\ IF Unauthorized(user)
          THEN /\ Respond(Send(h, req, 401, Body("Unauthorized"), NoDetail))
               /\ UNCHANGED <<job, hist>>
        ELSE IF id = NoId
          THEN /\ Respond(Send(h, req, 400, Body("Job ID is required"), NoDetail))
               /\ UNCHANGED <<job, hist>>
        ELSE IF Thrown(out)
          THEN /\ Respond(Send(h, req, 500,
                    [Body("Internal Server Error") EXCEPT !.detail = out], out))
               /\ UNCHANGED <<job, hist>>
        ELSE /\ job' = job \ deleted
             /\ hist' = Forget(id)
             /\ IF result = {}
                  THEN Respond(Send(h, req, 404, Body("Job not found"), NoDetail))
                  ELSE Respond(Send(h, req, 204, [Body("") EXCEPT !.rows = result], NoDetail))

updateJob(user, id, body, out) ==
  LET h == "updateJob"
      req == [user |-> user, id |-> id, body |-> body]
      target == WhereId(job, id)
      jobData == JobData(body)
      updatedJob == {[r EXCEPT !.categoryId = jobData.categoryId,
                               !.levelId = jobData.levelId,
                               !.isApproved = jobData.isApproved,
                               !.updatedAt = NewDate] : r \in target}
  IN /\ UNCHANGED <<jobCategory, jobLevel, jobSaved, event, next, hist>>
     /\ UNCHANGED <<registration, userTable, now>>
     /\ IF Unauthorized(user)
          THEN /\ Respond(Send(h, req, 401, Body("Unauthorized"), NoDetail))
               /\ UNCHANGED job
        ELSE IF ~IsUuid(id)
          THEN /\ Respond(Send(h, req, 400, Body("Invalid job ID format"), NoDetail))
               /\ UNCHANGED job
        ELSE IF ~JobSchema(body)
          THEN /\ Respond(Send(h, req, 422,
                    [Body("Validation exception") EXCEPT !.detail = ZodIssues], NoDetail))
               /\ UNCHANGED job
        ELSE IF Thrown(out)
          THEN /\ Respond(Send(h, req, 500, Body("Internal server error"), out))
               /\ UNCHANGED job
        ELSE /\ job' = (job \ target) \cup updatedJob
             /\ IF updatedJob = {}
                  THEN Respond(Send(h, req, 404, Body("Job not found"), NoDetail))
                  ELSE Respond(Send(h, req, 200, [Body("") EXCEPT !.rows = updatedJob],
                                    NoDetail))

submitJobForApproval(user, body, out) ==
  LET h == "submitJobForApproval"
      req == [user |-> user, body |-> body]
      isAdmin == isAdminRole(user)
      id == Uuid(next.job + 1)
      newJob == [id |-> id, isApproved |-> isAdmin,
                 categoryId |-> body.category, levelId |-> body.level,
                 updatedAt |-> DefaultNow]
  IN /\ UNCHANGED <<jobCategory, jobLevel, jobSaved, event>>
     /\ UNCHANGED <<registration, userTable, now>>
     /\ IF user = NoUser
          THEN /\ Respond(Send(h, req, 401, Body("Unauthorized"), NoDetail))
               /\ UNCHANGED <<job, next, hist>>
        ELSE IF ~createJobSchema(body)
          THEN /\ Respond(Send(h, req, 422,
                    [Body("Validation error") EXCEPT !.detail = ZodIssues], NoDetail))
               /\ UNCHANGED <<job, next, hist>>
        ELSE IF Thrown(out)
          THEN /\ Respond(Send(h, req, 400, Body("Invalid input"), out))
               /\ UNCHANGED <<job, next, hist>>
        ELSE /\ Inserted < MaxRows
             /\ job' = job \cup {newJob}
             /\ next' = [next EXCEPT !.job = @ + 1]
             /\ hist' = Note(id, IF isAdmin THEN "admin" ELSE "pending")
             /\ Respond(Send(h, req, 202,
                  [Body("Job submitted for approval") EXCEPT !.jobId = id], NoDetail))

\* SetApproved that flips the flag.
SetToggled(r) == [r EXCEPT !.isApproved = ~@]

\* .set({ isApproved: true })
SetApproved(r) == [r EXCEPT !.isApproved = TRUE]

approveJob(user, id, out) ==
  LET h == "approveJob"
      req == [user |-> user, id |-> id, again |-> id \in DOMAIN hist /\ hist[id] = "approved"]
      target == WhereId(job, id)
      updated == {SetApproved(r) : r \in target}
      result == RowList(updated, TRUE)
  IN /\ UNCHANGED <<jobCategory, jobLevel, jobSaved, event, next>>
     /\ UNCHANGED <<registration, userTable, now>>
     /\ IF Unauthorized(user)
          THEN /\ Respond(Send(h, req, 401, Body("Unauthorized"), NoDetail))
               /\ UNCHANGED <<job, hist>>
        ELSE IF id = NoId
          THEN /\ Respond(Send(h, req, 400, Body("Invalid job ID"), NoDetail))
               /\ UNCHANGED <<job, hist>>
        ELSE IF Thrown(out)
          THEN /\ Respond(Send(h, req, 500, Body("Internal server error"), out))
               /\ UNCHANGED <<job, hist>>
        ELSE /\ job' = (job \ target) \cup updated
             /\ IF result = {}
                  THEN /\ Respond(Send(h, req, 404, Body("Job not found"), NoDetail))
                       /\ UNCHANGED hist
                  ELSE /\ Respond(Send(h, req, 200,
                            [Body("Job approved successfully") EXCEPT !.jobId = id],
                            NoDetail))
                       /\ hist' = Note(id, "approved")

rejectJob(user, id, out) ==
  LET h == "rejectJob"
      req == [user |-> user, id |-> id]
      deleted == WhereId(job, id)
      rejectedJob == RowList(deleted, TRUE)
  IN /\ UNCHANGED <<jobCategory, jobLevel, jobSaved, event, next>>
     /\ UNCHANGED <<registration, userTable, now>>
     /\ IF Unauthorized(user)
          THEN /\ Respond(Send(h, req, 401, Body("Unauthorized"), NoDetail))
               /\ UNCHANGED <<job, hist>>
        ELSE IF id = NoId
          THEN /\ Respond(Send(h, req, 400, Body("Invalid job ID"), NoDetail))
               /\ UNCHANGED <<job, hist>>
        ELSE IF Thrown(out)
          THEN /\ Respond(Send(h, req, 500, Body("Internal server error"), out))
               /\ UNCHANGED <<job, hist>>
        ELSE /\ job' = job \ deleted
             /\ hist' = Forget(id)
             /\ IF rejectedJob = {}
                  THEN Respond(Send(h, req, 404, Body("Job not found"), NoDetail))
                  ELSE Respond(Send(h, req, 200,
                         [Body("Job rejected successfully") EXCEPT !.rows = rejectedJob],
                         NoDetail))

saveJob(user, id, out) ==
  LET h == "saveJob"
      req == [user |-> user, id |-> id]
      savedJob == [userId |-> user.id, jobId |-> id, n |-> next.saved + 1]
  IN /\ UNCHANGED <<job, jobCategory, jobLevel, event, hist>>
     /\ UNCHANGED <<registration, userTable, now>>
     /\ IF id = NoId \/ user = NoUser
          THEN /\ Respond(Send(h, req, 400, Body("bad request"), NoDetail))
               /\ UNCHANGED <<jobSaved, next>>
        ELSE IF Thrown(out)
          THEN /\ Respond(Send(h, req, 500, Body("Internal server error"), out))
               /\ UNCHANGED <<jobSaved, next>>
        ELSE /\ Inserted < MaxRows
             /\ jobSaved' = jobSaved \cup {savedJob}
             /\ next' = [next EXCEPT !.saved = @ + 1]
             /\ Respond(Send(h, req, 200,
                  [Body("Job saved successfully") EXCEPT !.rows = {savedJob}], NoDetail))

\* Matches without the isApproved condition.
MatchesUnapproved(r, cat, lvl) ==
  /\ cat[1] => r.categoryId = cat[2][2]
  /\ lvl[1] => r.levelId = lvl[2][2]

\* The conditions of getJobs: approved, and each filter that is supplied.
\* A filter is <<supplied, parseInt(value)>>.
Matches(r, cat, lvl) ==
  /\ r.isApproved = TRUE
  /\ cat[1] => r.categoryId = cat[2][2]
  /\ lvl[1] => r.levelId = lvl[2][2]

\* if (categoryId): the parameter is supplied and not the empty string
Truthy(s) == s # Absent /\ s # <<>>

getJobs(query, out) ==
  LET h == "getJobs"
      pageIndex == IF query.pageIndex = Absent THEN <<"1">> ELSE query.pageIndex
      pageSize == IF query.pageSize = Absent THEN <<"1", "0">> ELSE query.pageSize
      page == OrDefault(parseInt(pageIndex), 1)
      limit == OrDefault(parseInt(pageSize), 10)
      offset == (page - 1) * limit
      cat == <<Truthy(query.categoryId), parseInt(query.categoryId)>>
      lvl == <<Truthy(query.levelId), parseInt(query.levelId)>>
      \* a NaN parameter of an integer column, a negative LIMIT or OFFSET
      rejected == \/ cat[1] /\ ~cat[2][1]
                  \/ lvl[1] /\ ~lvl[2][1]
                  \/ limit < 0
                  \/ offset < 0
      matching == {r \in job : Matches(r, cat, lvl)}
      totalCount == Cardinality(matching)
      size == Min(limit, Max(0, totalCount - offset))
  IN /\ UNCHANGED <<job, jobCategory, jobLevel, jobSaved, event, next, hist>>
     /\ UNCHANGED <<registration, userTable, now>>
     /\ IF Thrown(out) \/ rejected
          THEN Respond(Send(h, query, 500, Body("Internal server error"),
                            IF Thrown(out) THEN out ELSE Rejected))
          ELSE \E result \in {d \in SUBSET matching : Cardinality(d) = size} :
                 IF result = {}
                   THEN Respond(Send(h, query, 404, Body("No job found"), NoDetail))
                   ELSE Respond(Send(h, query, 200,
                          [Body("") EXCEPT
                             !.rows = result,
                             !.pagination = [currentPage |-> page, pageSize |-> limit,
                                             totalCount |-> totalCount,
                                             totalPages |-> Ceil(totalCount, limit)]],
                          NoDetail))

(* ------------------------ category and level handlers ----------------- *)

\* Request bodies of the category and level routes.
TitleBodies == {[title |-> t] : t \in Titles \cup {NoTitle}}

\* JobCategorySchema.parse(req.body) does not throw
JobCategorySchema(body) == body.title # NoTitle

\* The unique index on title: the insert or update of a row that would
\* give two rows of the table one title is refused.
TitleTaken(table, title, id) == \E r \in table : r.title = title /\ r.id # id

\* The message of the error a statement throws, "ok" when it completes.
StatementError(out, nan, taken) ==
  IF Thrown(out) THEN out
  ELSE IF nan THEN Rejected
  ELSE IF taken THEN UniqueViolation
  ELSE "ok"

\* error.message.includes('unique constraint')
IncludesUniqueConstraint(message) == message = UniqueViolation

\* `new error(...)` and `error(...)` on a caught Error object
NotAConstructor == "error is not a constructor"
NotAFunction == "error is not a function"

\* InvalidInput answered as an unexpected error.
InvalidInputAsServerError(h, req) ==
  Send(h, req, 500, Body("Internal server error"), NoDetail)

\* if (error instanceof ZodError) return res.status(400).json({ message:
\* 'Invalid input', errors: error.errors })
InvalidInput(h, req) ==
  Send(h, req, 400, [Body("Invalid input") EXCEPT !.detail = ZodIssues], NoDetail)

\* Values storing another title than the one validated.
ValuesUntitled(id, title) == [id |-> id, title |-> NoTitle, updatedAt |-> DefaultNow]

\* .values({ title }).returning(): the row the insert stores and returns,
\* its id drawn from the table's serial.
Values(id, title) == [id |-> id, title |-> title, updatedAt |-> DefaultNow]

createJobCategory(user, body, out) ==
  LET h == "createJobCategory"
      req == [user |-> user, body |-> body]
      newCategory == Values(next.category + 1, body.title)
      failed == StatementError(out, FALSE, TitleTaken(jobCategory, body.title, 0))
      \* the error the .catch callback throws in place of the statement's
      error == NotAConstructor
  IN /\ UNCHANGED <<job, jobLevel, jobSaved, event>>
     /\ UNCHANGED <<registration, userTable, now>>
     /\ IF ~JobCategorySchema(body)
          THEN \* thrown before the try block
               /\ Respond(Send(h, req, 0, NoBody, NoDetail))
               /\ UNCHANGED <<jobCategory, next, hist>>
        ELSE IF failed # "ok"
          THEN /\ UNCHANGED <<jobCategory, next, hist>>
               /\ IF error = "Job category already exists"
                    THEN Respond(Send(h, req, 409, Body(error), failed))
                    ELSE Respond(Send(h, req, 500, Body("Internal server error"), failed))
        ELSE /\ Inserted < MaxRows
             /\ jobCategory' = jobCategory \cup {newCategory}
             /\ next' = [next EXCEPT !.category = @ + 1]
             /\ hist' = Note(CategoryKey(newCategory.id), newCategory.title)
             /\ Respond(Send(h, req, 201,
                  [Body("Job category created successfully") EXCEPT !.rows = {newCategory}],
                  NoDetail))

getCategoryById(id, out) ==
  LET h == "getCategoryById"
      req == [id |-> id]
      categoryID == parseInt(id)
      failed == StatementError(out, ~categoryID[1], FALSE)
      categoryFound == WhereId(jobCategory, categoryID[2])
  IN /\ UNCHANGED <<job, jobCategory, jobLevel, jobSaved, event, next, hist>>
     /\ UNCHANGED <<registration, userTable, now>>
     /\ IF failed # "ok"
          THEN Respond(Send(h, req, 500, Body("Internal server error"), failed))
        ELSE IF categoryFound = {}
          THEN Respond(Send(h, req, 404, Body("Category not found"), NoDetail))
        ELSE Respond(Send(h, req, 200, [Body("") EXCEPT !.rows = categoryFound], NoDetail))

upadteJobCategory(user, id, body, out) ==
  LET h == "upadteJobCategory"
      req == [user |-> user, id |-> id, body |-> body]
      categoryID == parseInt(id)
      target == WhereId(jobCategory, categoryID[2])
      updatedCategory == {[r EXCEPT !.title = body.title] : r \in target}
      failed == StatementError(out, ~categoryID[1],
                  target # {} /\ TitleTaken(jobCategory, body.title, categoryID[2]))
  IN /\ UNCHANGED <<job, jobLevel, jobSaved, event, next>>
     /\ UNCHANGED <<registration, userTable, now>>
     /\ IF ~JobCategorySchema(body)
          THEN /\ Respond(InvalidInput(h, req))
               /\ UNCHANGED <<jobCategory, hist>>
        ELSE IF failed # "ok"
          THEN /\ UNCHANGED <<jobCategory, hist>>
               /\ IF IncludesUniqueConstraint(failed)
                    THEN Respond(Send(h, req, 409,
                           Body("A job category with this title already exists"), failed))
                    ELSE Respond(Send(h, req, 500, Body("Internal server error"), failed))
        ELSE /\ jobCategory' = (jobCategory \ target) \cup updatedCategory
             /\ hist' = IF updatedCategory = {} THEN hist ELSE Forget(CategoryKey(categoryID[2]))
             /\ IF updatedCategory = {}
                  THEN Respond(Send(h, req, 404, Body("Job category not found"), NoDetail))
                  ELSE Respond(Send(h, req, 200,
                         [Body("Job category updated successfully") EXCEPT
                            !.rows = updatedCategory], NoDetail))

deleteJobCategory(user, id, out) ==
  LET h == "deleteJobCategory"
      req == [user |-> user, id |-> id]
      categoryID == parseInt(id)
      failed == StatementError(out, ~categoryID[1], FALSE)
      deletedCategory == WhereId(jobCategory, categoryID[2])
  IN /\ UNCHANGED <<job, jobLevel, jobSaved, event, next>>
     /\ UNCHANGED <<registration, userTable, now>>
     /\ IF failed # "ok"
          THEN /\ Respond(Send(h, req, 500, Body("Internal server error"), failed))
               /\ UNCHANGED <<jobCategory, hist>>
        ELSE /\ jobCategory' = jobCategory \ deletedCategory
             /\ hist' = IF deletedCategory = {} THEN hist ELSE Forget(CategoryKey(categoryID[2]))
             /\ IF deletedCategory = {}
                  THEN Respond(Send(h, req, 404, Body("Job category not found"), NoDetail))
                  ELSE Respond(Send(h, req, 200,
                         [Body("Job category deleted successfully") EXCEPT
                            !.rows = deletedCategory], NoDetail))

createJobLevel(user, body, out) ==
  LET h == "createJobLevel"
      req == [user |-> user, body |-> body]
      newLevel == Values(next.level + 1, body.title)
      failed == StatementError(out, FALSE, TitleTaken(jobLevel, body.title, 0))
      error == NotAFunction
  IN /\ UNCHANGED <<job, jobCategory, jobSaved, event, hist>>
     /\ UNCHANGED <<registration, userTable, now>>
     /\ IF ~JobCategorySchema(body)
          THEN /\ Respond(InvalidInput(h, req))
               /\ UNCHANGED <<jobLevel, next>>
        ELSE IF failed # "ok"
          THEN /\ UNCHANGED <<jobLevel, next>>
               /\ IF error = "Job category already exists"
                    THEN Respond(Send(h, req, 409, Body(error), failed))
                    ELSE Respond(Send(h, req, 500, Body("Internal server error"), failed))
        ELSE /\ Inserted < MaxRows
             /\ jobLevel' = jobLevel \cup {newLevel}
             /\ next' = [next EXCEPT !.level = @ + 1]
             /\ Respond(Send(h, req, 201,
                  [Body("Job category created successfully") EXCEPT !.rows = {newLevel}],
                  NoDetail))

getJobLevelById(id, out) ==
  LET h == "getJobLevelById"
      req == [id |-> id]
      levelID == parseInt(id)
      failed == StatementError(out, ~levelID[1], FALSE)
      levelFound == WhereId(jobLevel, levelID[2])
  IN /\ UNCHANGED <<job, jobCategory, jobLevel, jobSaved, event, next, hist>>
     /\ UNCHANGED <<registration, userTable, now>>
     /\ IF failed # "ok"
          THEN Respond(Send(h, req, 500, Body("Internal server error"), failed))
        ELSE IF levelFound = {}
          THEN Respond(Send(h, req, 404, Body("Category not found"), NoDetail))
        ELSE Respond(Send(h, req, 200, [Body("") EXCEPT !.rows = levelFound], NoDetail))

updateJobLevel(user, id, body, out) ==
  LET h == "updateJobLevel"
      req == [user |-> user, id |-> id, body |-> body]
      levelID == parseInt(id)
      target == WhereId(jobLevel, levelID[2])
      updatedLevel == {[r EXCEPT !.title = body.title] : r \in target}
      failed == StatementError(out, ~levelID[1],
                  target # {} /\ TitleTaken(jobLevel, body.title, levelID[2]))
  IN /\ UNCHANGED <<job, jobCategory, jobSaved, event, next, hist>>
     /\ UNCHANGED <<registration, userTable, now>>
     /\ IF ~JobCategorySchema(body)
          THEN /\ Respond(InvalidInput(h, req))
               /\ UNCHANGED jobLevel
        ELSE IF failed # "ok"
          THEN /\ UNCHANGED jobLevel
               /\ IF IncludesUniqueConstraint(failed)
                    THEN Respond(Send(h, req, 409,
                           Body("A job level with this title already exists"), failed))
                    ELSE Respond(Send(h, req, 500, Body("Internal server error"), failed))
        ELSE /\ jobLevel' = (jobLevel \ target) \cup updatedLevel
             /\ IF updatedLevel = {}
                  THEN Respond(Send(h, req, 404, Body("Job level not found"), NoDetail))
                  ELSE Respond(Send(h, req, 200,
                         [Body("Job level updated successfully") EXCEPT
                            !.rows = updatedLevel], NoDetail))

deleteJobLevel(user, id, out) ==
  LET h == "deleteJobLevel"
      req == [user |-> user, id |-> id]
      levelID == parseInt(id)
      failed == StatementError(out, ~levelID[1], FALSE)
      deletedLevel == WhereId(jobLevel, levelID[2])
  IN /\ UNCHANGED <<job, jobCategory, jobSaved, event, next, hist>>
     /\ UNCHANGED <<registration, userTable, now>>
     /\ IF failed # "ok"
          THEN /\ Respond(Send(h, req, 500, Body("Internal server error"), failed))
               /\ UNCHANGED jobLevel
        ELSE /\ jobLevel' = jobLevel \ deletedLevel
             /\ IF deletedLevel = {}
                  THEN Respond(Send(h, req, 404, Body("Job level not found"), NoDetail))
                  ELSE Respond(Send(h, req, 200,
                         [Body("Job level deleted successfully") EXCEPT
                            !.rows = deletedLevel], NoDetail))

getCategories(out) ==
  LET h == "getCategories"
      req == [id |-> NoId]
      categories == jobCategory
  IN /\ UNCHANGED <<job, jobCategory, jobLevel, jobSaved, event, registration, userTable,
                    now, next, hist>>
     /\ IF Thrown(out)
          THEN Respond(Send(h, req, 500, Body("Internal server error"), out))
          ELSE Respond(Send(h, req, 200, [Body("") EXCEPT !.rows = categories], NoDetail))

(* ----------------------------- event router --------------------------- *)

\* What eventService does with a parsed request: it returns a success
\* response, returns a failure response, or throws.
ServiceOutcomes == {"ok", "failed", "throws"}

\* CreateEventSchema.parse({ body: req.body }) does not throw
CreateEventSchema(body) == body.title # NoTitle

\* UpdateEventSchema.parse(req) does not throw
UpdateEventSchema(id, body) == IsUuid(id) /\ body.title # NoTitle

\* handleServiceResponse(serviceResponse, res)
handleServiceResponse(h, req, statusCode, text, rows) ==
  Respond(Send(h, req, statusCode, [Body(text) EXCEPT !.rows = rows], NoDetail))

eventPost(body, svc) ==
  LET h == "POST /events"
      req == [body |-> body]
      newEvent == [id |-> Uuid(next.event + 1), title |-> body.title]
  IN /\ UNCHANGED <<job, jobCategory, jobLevel, jobSaved, hist>>
     /\ UNCHANGED <<registration, userTable, now>>
     /\ IF ~CreateEventSchema(body)
          THEN /\ handleServiceResponse(h, req, 400, "bad request", {})
               /\ UNCHANGED <<event, next>>
        ELSE IF svc = "throws"
          THEN \* the catch block answers a ZodError only
               /\ Respond(Send(h, req, 0, NoBody, ConnectionError))
               /\ UNCHANGED <<event, next>>
        ELSE IF svc = "failed"
          THEN /\ handleServiceResponse(h, req, 500, "failed", {})
               /\ UNCHANGED <<event, next>>
        ELSE /\ Inserted < MaxRows
             /\ event' = event \cup {newEvent}
             /\ next' = [next EXCEPT !.event = @ + 1]
             /\ handleServiceResponse(h, req, 200, "created", {newEvent})

eventPut(id, body, svc) ==
  LET h == "PUT /events/:id"
      req == [id |-> id, body |-> body]
      target == WhereId(event, id)
      updated == {[r EXCEPT !.title = body.title] : r \in target}
  IN /\ UNCHANGED <<job, jobCategory, jobLevel, jobSaved, next, hist>>
     /\ UNCHANGED <<registration, userTable, now>>
     /\ IF ~UpdateEventSchema(id, body)
          THEN /\ handleServiceResponse(h, req, 400, "bad request", {})
               /\ UNCHANGED event
        ELSE IF svc = "throws"
          THEN /\ Respond(Send(h, req, 0, NoBody, ConnectionError))
               /\ UNCHANGED event
        ELSE IF svc = "failed"
          THEN /\ handleServiceResponse(h, req, 500, "failed", {})
               /\ UNCHANGED event
        ELSE /\ event' = (event \ target) \cup updated
             /\ IF updated = {}
                  THEN handleServiceResponse(h, req, 404, "not found", {})
                  ELSE handleServiceResponse(h, req, 200, "updated", updated)

\* The referential structure of the schema: a registration references its
\* event, so it is inserted only for a stored event, and an event that
\* registrations reference is not deleted.
Referenced(eventId) == \E r \in registration : r.eventId = eventId

\* router.delete('/:id'): the service is awaited outside any try block, so
\* what it throws leaves the handler.
eventDelete(id, svc) ==
  LET h == "DELETE /events/:id"
      req == [id |-> id]
      deleted == WhereId(event, id)
  IN /\ UNCHANGED <<job, jobCategory, jobLevel, jobSaved, registration, userTable, now,
                    next, hist>>
     /\ IF svc = "throws"
          THEN /\ Respond(Send(h, req, 0, NoBody, ConnectionError))
               /\ UNCHANGED event
        ELSE IF svc = "failed" \/ Referenced(id)
          THEN /\ handleServiceResponse(h, req, 500, "failed", {})
               /\ UNCHANGED event
        ELSE /\ event' = event \ deleted
             /\ IF deleted = {}
                  THEN handleServiceResponse(h, req, 404, "not found", {})
                  ELSE handleServiceResponse(h, req, 200, "deleted", deleted)

\* router.get('/:eventId/registrations')
eventRegistrations(eventId, svc) ==
  LET h == "GET /events/:eventId/registrations"
      req == [id |-> eventId]
      found == {r \in registration : r.eventId = eventId}
  IN /\ UNCHANGED <<job, jobCategory, jobLevel, jobSaved, event, registration, userTable,
                    now, next, hist>>
     /\ IF svc = "throws"
          THEN Respond(Send(h, req, 0, NoBody, ConnectionError))
        ELSE IF svc = "failed"
          THEN handleServiceResponse(h, req, 500, "failed", {})
        ELSE handleServiceResponse(h, req, 200, "registrations", found)

\* The :userId and req.body.userType of the registration route.
RegisteringUsers == {"u2"}
UserTypes == {"attendee"}

\* router.post('/:eventId/register/:userId')
eventRegister(eventId, userId, userType, svc) ==
  LET h == "POST /events/:eventId/register/:userId"
      req == [id |-> eventId, userId |-> userId, userType |-> userType]
      newRegistration == [eventId |-> eventId, userId |-> userId, userType |-> userType,
                          n |-> next.registration + 1]
  IN /\ UNCHANGED <<job, jobCategory, jobLevel, jobSaved, event, userTable, now, hist>>
     /\ IF svc = "throws"
          THEN /\ Respond(Send(h, req, 0, NoBody, ConnectionError))
               /\ UNCHANGED <<registration, next>>
        ELSE IF svc = "failed" \/ ~Stored(event, eventId)
          THEN /\ handleServiceResponse(h, req, 500, "failed", {})
               /\ UNCHANGED <<registration, next>>
        ELSE /\ Inserted < MaxRows
             /\ registration' = registration \cup {newRegistration}
             /\ next' = [next EXCEPT !.registration = @ + 1]
             /\ handleServiceResponse(h, req, 200, "registered", {newRegistration})

(* ---------------------------- user repository ------------------------ *)

\* Arguments of the repository's functions.
FullNames == {"Ann", "Bob"}
Passwords == {"secret", "changed"}
UserIds == {Uuid(1), Uuid(2)}

\* What a repository function hands back to its caller: the rows of
\* `result`, or the error its statement threw.
Return(f, req, rows, threw) == Respond(Send(f, req, 0, [NoBody EXCEPT !.rows = rows], threw))

createUserAsync(fullName, password, out) ==
  LET f == "createUserAsync"
      req == [fullName |-> fullName, password |-> password]
      newUser == [id |-> Uuid(next.user + 1), fullName |-> fullName, password |-> password,
                  updatedAt |-> DefaultNow]
  IN /\ UNCHANGED <<job, jobCategory, jobLevel, jobSaved, event, registration, now, hist>>
     /\ IF Thrown(out)
          THEN /\ Return(f, req, {}, out)
               /\ UNCHANGED <<userTable, next>>
          ELSE /\ Inserted < MaxRows
               /\ userTable' = userTable \cup {newUser}
               /\ next' = [next EXCEPT !.user = @ + 1]
               /\ Return(f, req, {}, NoDetail)

deleteUserAsync(id, out) ==
  LET f == "deleteUserAsync"
      req == [id |-> id]
  IN /\ UNCHANGED <<job, jobCategory, jobLevel, jobSaved, event, registration, now, next,
                    hist>>
     /\ IF Thrown(out)
          THEN /\ Return(f, req, {}, out)
               /\ UNCHANGED userTable
          ELSE /\ userTable' = userTable \ WhereId(userTable, id)
               /\ Return(f, req, {}, NoDetail)

updateUserAsync(id, fullName, out) ==
  LET f == "updateUserAsync"
      req == [id |-> id, fullName |-> fullName]
      updatedAt == NewDate
      target == WhereId(userTable, id)
      result == {[r EXCEPT !.fullName = fullName, !.updatedAt = updatedAt] : r \in target}
  IN /\ UNCHANGED <<job, jobCategory, jobLevel, jobSaved, event, registration, now, next,
                    hist>>
     /\ IF Thrown(out)
          THEN /\ Return(f, req, {}, out)
               /\ UNCHANGED userTable
          ELSE /\ userTable' = (userTable \ target) \cup result
               /\ Return(f, req, result, NoDetail)

resetPasswordAsync(id, password, out) ==
  LET f == "resetPasswordAsync"
      req == [id |-> id, password |-> password]
      updatedAt == NewDate
      target == WhereId(userTable, id)
      result == {[r EXCEPT !.password = password, !.updatedAt = updatedAt] : r \in target}
  IN /\ UNCHANGED <<job, jobCategory, jobLevel, jobSaved, event, registration, now, next,
                    hist>>
     /\ IF Thrown(out)
          THEN /\ Return(f, req, {}, out)
               /\ UNCHANGED userTable
          ELSE /\ userTable' = (userTable \ target) \cup result
               /\ Return(f, req, result, NoDetail)

(* ---------------------------- specification --------------------------- *)

\* saveJob reads the principal's id and the :id parameter and no table.
SavingPrincipals == {NoUser, CHOOSE u \in Users : ~isAdminRole(u)}
SavedIdParams == {Uuid(1), NoId}

Queries ==
  [pageIndex : PageIndexes, pageSize : PageSizes,
   categoryId : CategoryFilters, levelId : LevelFilters]

\* The client takes the response (or gives up waiting for one).
Deliver ==
  /\ resp # NoExchange
  /\ resp' = NoExchange
  /\ UNCHANGED <<job, jobCategory, jobLevel, jobSaved, event, registration, userTable, now,
                 next, hist>>

\* No exchange is in progress: the next request is dispatched.
Idle == resp = NoExchange

Next ==
  \/ Idle /\ \E id \in JobIdParams, out \in DbOutcomes : getJobById(id, out)
  \/ Idle /\ \E u \in Principals, id \in JobIdParams, out \in DbOutcomes : deleteJobById(u, id, out)
  \/ Idle /\ \E u \in Principals, id \in JobIdParams, b \in JobBodies, out \in DbOutcomes :
       updateJob(u, id, b, out)
  \/ Idle /\ \E q \in Queries, out \in DbOutcomes : getJobs(q, out)
  \/ Idle /\ \E u \in Principals, b \in JobBodies, out \in DbOutcomes :
       submitJobForApproval(u, b, out)
  \/ Idle /\ \E u \in Principals, id \in JobIdParams, out \in DbOutcomes : approveJob(u, id, out)
  \/ Idle /\ \E u \in Principals, id \in JobIdParams, out \in DbOutcomes : rejectJob(u, id, out)
  \/ Idle /\ \E u \in SavingPrincipals, id \in SavedIdParams, out \in DbOutcomes :
       saveJob(u, id, out)
  \/ Idle /\ \E u \in Principals, b \in TitleBodies, out \in DbOutcomes :
       createJobCategory(u, b, out)
  \/ Idle /\ \E id \in IdParams, out \in DbOutcomes : getCategoryById(id, out)
  \/ Idle /\ \E u \in Principals, id \in IdParams, b \in TitleBodies, out \in DbOutcomes :
       upadteJobCategory(u, id, b, out)
  \/ Idle /\ \E u \in Principals, id \in IdParams, out \in DbOutcomes :
       deleteJobCategory(u, id, out)
  \/ Idle /\ \E u \in Principals, b \in TitleBodies, out \in DbOutcomes :
       createJobLevel(u, b, out)
  \/ Idle /\ \E id \in IdParams, out \in DbOutcomes : getJobLevelById(id, out)
  \/ Idle /\ \E u \in Principals, id \in IdParams, b \in TitleBodies, out \in DbOutcomes :
       updateJobLevel(u, id, b, out)
  \/ Idle /\ \E u \in Principals, id \in IdParams, out \in DbOutcomes :
       deleteJobLevel(u, id, out)
  \/ Idle /\ \E b \in TitleBodies, svc \in ServiceOutcomes : eventPost(b, svc)
  \/ Idle /\ \E id \in JobIdParams, b \in TitleBodies, svc \in ServiceOutcomes : eventPut(id, b, svc)
  \/ Idle /\ \E out \in DbOutcomes : getCategories(out)
  \/ Idle /\ \E id \in JobIdParams, svc \in ServiceOutcomes : eventDelete(id, svc)
  \/ Idle /\ \E id \in SavedIdParams, svc \in ServiceOutcomes : eventRegistrations(id, svc)
  \/ Idle /\ \E id \in SavedIdParams, u \in RegisteringUsers, t \in UserTypes,
                svc \in ServiceOutcomes : eventRegister(id, u, t, svc)
  \/ Deliver

\* The request handlers, served at one reading of the clock.
Spec == Init /\ [][Next]_vars

\* Time passes between two calls.
Tick ==
  /\ Idle
  /\ now < MaxTime
  /\ now' = now + 1
  /\ UNCHANGED <<job, jobCategory, jobLevel, jobSaved, event, registration, userTable,
                 next, hist, resp>>

NextClock ==
  \/ Next
  \/ Tick
  \/ Idle /\ \E n \in FullNames, p \in Passwords, out \in DbOutcomes :
       createUserAsync(n, p, out)
  \/ Idle /\ \E id \in UserIds, out \in DbOutcomes : deleteUserAsync(id, out)
  \/ Idle /\ \E id \in UserIds, n \in FullNames, out \in DbOutcomes :
       updateUserAsync(id, n, out)
  \/ Idle /\ \E id \in UserIds, p \in Passwords, out \in DbOutcomes :
       resetPasswordAsync(id, p, out)

\* The request handlers and the user repository, with the clock running.
SpecClock == Init /\ [][NextClock]_vars

(* ------------------------------ properties ---------------------------- *)

storage == <<job, jobCategory, jobLevel, jobSaved, event, registration, userTable>>

\* The role equals 'admin' compared case-insensitively.
IsAdminCI(role) ==
  /\ Len(role) = 5
  /\ role[1] \in {"a", "A"} /\ role[2] \in {"d", "D"} /\ role[3] \in {"m", "M"}
  /\ role[4] \in {"i", "I"} /\ role[5] \in {"n", "N"}

AdminPrincipal(user) == user # NoUser /\ IsAdminCI(user.role)


\* C1: a submitJobForApproval call with a principal and a payload that
\* passes createJobSchema, whose insert completes, is answered 202 and
\* inserts exactly one job row; that row's isApproved is true if the
\* principal's role is 'admin' case-insensitively and false otherwise,
\* whatever else the request carries.
C1_IsApprovedFollowsRole ==
  [][LET r == resp' IN
     r.handler = "submitJobForApproval" =>
       /\ (r.req.user # NoUser /\ r.req.body.title # NoTitle /\ r.threw = NoDetail)
            <=> r.status = 202
       /\ r.status = 202 =>
            \E new \in job' :
              /\ new.id = r.body.jobId
              /\ ~Stored(job, new.id)
              /\ job' = job \cup {new}
              /\ new.isApproved = AdminPrincipal(r.req.user)
       /\ r.status # 202 => job' = job]_vars

\* A mixed-case admin has created a job whose body asked for no approval,
\* and the stored row is approved.
C1_Witness ==
  /\ resp.handler = "submitJobForApproval"
  /\ resp.status = 202
  /\ resp.req.user.role = <<"A", "d", "m", "i", "N">>
  /\ resp.req.body.isApproved = FALSE
  /\ \E r \in job : r.id = resp.body.jobId /\ r.isApproved

MutatingHandlers ==
  {"submitJobForApproval", "updateJob", "deleteJobById", "approveJob", "rejectJob",
   "createJobCategory", "upadteJobCategory", "deleteJobCategory",
   "createJobLevel", "updateJobLevel", "deleteJobLevel"}

GatedHandlers == {"updateJob", "deleteJobById", "approveJob", "rejectJob"}

C4_ApproveIdempotent ==
  [][LET r == resp' IN
     (/\ r.handler = "approveJob"
      /\ AdminPrincipal(r.req.user)
      /\ r.threw = NoDetail
      /\ Stored(job, r.req.id)) =>
       /\ r.status = 200
       /\ r.body.jobId = r.req.id
       /\ \E new \in job' : new.id = r.req.id /\ new.isApproved
       /\ {x \in job' : x.id # r.req.id} = {x \in job : x.id # r.req.id}
       /\ UNCHANGED <<jobCategory, jobLevel, jobSaved, event>>
       /\ (\E old \in job : old.id = r.req.id /\ old.isApproved) => job' = job]_vars

\* A second successful approveJob call on the same job.
C4_Witness ==
  /\ resp.handler = "approveJob"
  /\ resp.status = 200
  /\ resp.req.again
  /\ \E r \in job : r.id = resp.req.id /\ r.isApproved

\* The page and the size a query asks for: the number its parameter starts
\* with, and the default when the parameter is absent, no number or 0.
AskedFor(param, default) ==
  IF param = Absent \/ ~parseInt(param)[1] \/ parseInt(param)[2] = 0
    THEN default
    ELSE parseInt(param)[2]

\* The stored jobs a query selects.
Selected(q) ==
  {r \in job :
     /\ r.isApproved
     /\ q.categoryId \notin {Absent, <<>>} => r.categoryId = parseInt(q.categoryId)[2]
     /\ q.levelId \notin {Absent, <<>>} => r.levelId = parseInt(q.levelId)[2]}

\* C5 as stated: every getJobs call whose statements complete carries a
\* pagination block with totalPages = ceil(totalCount / pageSize), with
\* currentPage the requested page index and with totalCount the number of
\* stored jobs matching the filters.
C5_EveryCallPaginated ==
  (resp.handler = "getJobs" /\ resp.threw = NoDetail) =>
    LET pg == resp.body.pagination IN
    /\ resp.status = 200
    /\ pg.pageSize > 0
    /\ pg.totalPages * pg.pageSize >= pg.totalCount
    /\ (pg.totalPages - 1) * pg.pageSize < pg.totalCount
    /\ pg.totalCount = Cardinality(Selected(resp.req))
    /\ (resp.req.pageIndex # Absent /\ parseInt(resp.req.pageIndex)[1])
         => pg.currentPage = parseInt(resp.req.pageIndex)[2]

\* C5 amended: every getJobs call that responds 200 carries a pagination
\* block with currentPage = page, pageSize = limit, totalCount the number of
\* stored approved jobs matching the filters and totalPages =
\* ceil(totalCount / limit), where page and limit are the numbers parsed
\* from pageIndex and pageSize, replaced by 1 and 10 when the parameter is
\* absent, not a number or 0; its data are at most limit of the matching
\* jobs.  A call whose page holds no job responds 404 without a pagination
\* block, and a call whose statements fail responds 500 without one.
C5_PaginationOfNonEmptyPage ==
  resp.handler = "getJobs" =>
    LET pg == resp.body.pagination
        page == AskedFor(resp.req.pageIndex, 1)
        limit == AskedFor(resp.req.pageSize, 10)
    IN /\ resp.status \in {200, 404, 500}
       /\ resp.status = 200 =>
            /\ pg.currentPage = page
            /\ pg.pageSize = limit
            /\ pg.totalCount = Cardinality(Selected(resp.req))
            /\ pg.totalPages * limit >= pg.totalCount
            /\ (pg.totalPages - 1) * limit < pg.totalCount
            /\ resp.body.rows # {}
            /\ resp.body.rows \subseteq Selected(resp.req)
            /\ Cardinality(resp.body.rows) <= limit
       /\ resp.status # 200 => pg = NoPagination /\ resp.body.rows = {}
       /\ resp.status = 404 =>
            /\ resp.threw = NoDetail
            /\ Cardinality(Selected(resp.req)) <= (page - 1) * limit

\* The second page of size 1 of two approved jobs: totalPages is 2.
C5_Witness ==
  /\ resp.handler = "getJobs"
  /\ resp.status = 200
  /\ resp.req.pageIndex = <<"2">>
  /\ resp.req.pageSize = <<"1">>
  /\ resp.body.pagination.totalPages = 2
  /\ resp.body.pagination.currentPage = 2

\* The id a GetById request names is in the table: the :id of the category
\* and level routes is read as the number it starts with.
Present(r) ==
  CASE r.handler = "getJobById" -> Stored(job, r.req.id)
    [] r.handler = "getCategoryById" -> Stored(jobCategory, parseInt(r.req.id)[2])
    [] r.handler = "getJobLevelById" -> Stored(jobLevel, parseInt(r.req.id)[2])

NoSharedTitle(table) == \A a, b \in table : a.title = b.title => a = b

\* C7: a createJobCategory or createJobLevel call whose title a stored row
\* already has responds 409 and adds no row, and no two stored categories
\* and no two stored levels share a title.
C7_DuplicateTitleConflict ==
  /\ NoSharedTitle(jobCategory)
  /\ NoSharedTitle(jobLevel)
  /\ (resp.handler \in {"createJobCategory", "createJobLevel"}
        /\ resp.threw = UniqueViolation) => resp.status = 409

\* C8: deleteJobById by an admin, whose statement completes, removes the
\* row of a stored id and responds 200 or 204; it responds 404 only for an
\* id that is not stored, and then changes nothing.
C8_DeleteStoredJobSucceeds ==
  [][LET r == resp' IN
     (/\ r.handler = "deleteJobById"
      /\ AdminPrincipal(r.req.user)
      /\ r.req.id # NoId
      /\ r.threw = NoDetail) =>
       IF Stored(job, r.req.id)
         THEN /\ r.status \in {200, 204}
              /\ job' = {x \in job : x.id # r.req.id}
         ELSE /\ r.status = 404
              /\ job' = job]_vars

BodyHandlers ==
  {"submitJobForApproval", "updateJob", "createJobCategory", "upadteJobCategory",
   "createJobLevel", "updateJobLevel", "POST /events", "PUT /events/:id"}

\* The request reaches the validation of its body: it passes the checks of
\* the principal and of the job id that precede it.
ReachesValidation(r) ==
  CASE r.handler = "submitJobForApproval" -> r.req.user # NoUser
    [] r.handler = "updateJob" -> AdminPrincipal(r.req.user) /\ r.req.id[1] = "uuid"
    [] OTHER -> TRUE

InvalidBody(r) == r.req.body.title = NoTitle

ValidationStatus(h) ==
  CASE h \in {"submitJobForApproval", "updateJob"} -> 422
    [] h = "createJobCategory" -> 0
    [] OTHER -> 400

JobServiceHandlers ==
  {"getJobById", "deleteJobById", "updateJob", "getJobs", "submitJobForApproval",
   "approveJob", "rejectJob", "saveJob", "createJobCategory", "getCategoryById",
   "upadteJobCategory", "deleteJobCategory", "createJobLevel", "getJobLevelById",
   "updateJobLevel", "deleteJobLevel"}

\* C10: a job, category, level or save-job handler whose database call
\* throws responds 500 with a body that carries nothing of the error.
C10_GenericServerError ==
  (resp.handler \in JobServiceHandlers /\ resp.threw # NoDetail) =>
    /\ resp.status = 500
    /\ resp.body.detail = NoDetail
    /\ resp.body.rows = {}

\* C11: a createJobCategory call with a title that passes validation and
\* is not stored, whose insert completes, responds 201 with a category
\* that carries an id and that title and stores it; and a getCategoryById
\* call whose query completes, on the id of a category that no update or
\* delete has touched since its creation, responds 200 with exactly the
\* record of that id and the title the category was created with.
C11_CreateThenGetByIdRoundTrip ==
  [][LET r == resp' IN
       /\ (/\ r.handler = "createJobCategory"
           /\ JobCategorySchema(r.req.body)
           /\ ~(\E c \in jobCategory : c.title = r.req.body.title)
           /\ r.threw = NoDetail) =>
            /\ r.status = 201
            /\ \E c \in r.body.rows :
                 /\ r.body.rows = {c}
                 /\ c.title = r.req.body.title
                 /\ ~Stored(jobCategory, c.id)
                 /\ jobCategory' = jobCategory \cup {c}
       /\ (/\ r.handler = "getCategoryById"
           /\ parseInt(r.req.id)[1]
           /\ CategoryKey(parseInt(r.req.id)[2]) \in DOMAIN hist
           /\ r.threw = NoDetail) =>
            /\ r.status = 200
            /\ \E c \in r.body.rows :
                 /\ r.body.rows = {c}
                 /\ c.id = parseInt(r.req.id)[2]
                 /\ c.title = hist[CategoryKey(c.id)]]_vars

\* A category has been created, other requests have been served since, and
\* getCategoryById has answered 200 on its id.
C11_Witness ==
  /\ resp.handler = "getCategoryById"
  /\ resp.status = 200
  /\ CategoryKey(parseInt(resp.req.id)[2]) \in DOMAIN hist
  /\ Cardinality(jobCategory) = 2

RepositoryFunctions ==
  {"createUserAsync", "deleteUserAsync", "updateUserAsync", "resetPasswordAsync"}

\* C12 as stated: every handler invocation ends with one response sent,
\* whatever the request and whatever the database or the service does.
C12_EveryInvocationResponds ==
  (resp # NoExchange /\ resp.handler \notin RepositoryFunctions) => resp.status # 0

\* C13 as stated: every successful updateJob, approveJob, upadteJobCategory,
\* updateJobLevel, updateUserAsync and resetPasswordAsync leaves the row it
\* changed with updatedAt equal to the time of the call.
C13_MutationStampsUpdatedAt ==
  [][LET r == resp' IN
       /\ (r.handler \in {"updateJob", "approveJob"} /\ r.status = 200) =>
            \A x \in WhereId(job', r.req.id) : x.updatedAt = now
       /\ (r.handler = "upadteJobCategory" /\ r.status = 200) =>
            \A x \in WhereId(jobCategory', parseInt(r.req.id)[2]) : x.updatedAt = now
       /\ (r.handler = "updateJobLevel" /\ r.status = 200) =>
            \A x \in WhereId(jobLevel', parseInt(r.req.id)[2]) : x.updatedAt = now
       /\ (r.handler \in {"updateUserAsync", "resetPasswordAsync"} /\ r.body.rows # {}) =>
            \A x \in WhereId(userTable', r.req.id) : x.updatedAt = now]_vars

====
